---- MODULE Spec2Model ----
(***************************************************************************)
(* Model of the Blackboard credential broker of src/server.py: the pending *)
(* OAuth states (_pending_auth), the credential table (_blackboard_tokens),*)
(* the identity bookkeeping (_sso_identities), the MCP tools and the OAuth *)
(* callback.  Python dicts are sets of entries with a "key" field; time is *)
(* datetime.utcnow() in whole seconds.                                     *)
(***************************************************************************)
EXTENDS Integers, FiniteSets, Sequences, Bags, TLC

\* ------------------------------------------------------------------ bounds
MaxStates == 2          \* state tokens create_auth_state may hand out
MaxInflight == 2        \* token exchanges awaiting the upstream at once

\* ------------------------------------------------------- program constants
TTL_SECONDS == 300          \* timedelta(minutes=5)
DEFAULT_EXPIRES_IN == 3600  \* token_data.get("expires_in", 3600)
HTTP_OK == 200
HTTP_BAD_REQUEST == 400

\* ------------------------------------------------------------------ values
None == "<None>"                  \* Python None, for string-valued slots
NoState == 0 - 1                  \* query parameter "state" absent
Bogus == 0                        \* a state string that was never issued
NoTime == 0 - 1

Truthy(v) == v # None /\ v # ""
PyOr(a, b) == IF Truthy(a) THEN a ELSE b

\* the instants at which the clock is read: the start, and the instants
\* around which the code's comparisons with the TTL change
Instants == {0, TTL_SECONDS, TTL_SECONDS + 1}

Subs == {"u1", "u2"}
Sessions == {"sessA", "sessB"}

EmptyClaims == [sub |-> None, user_id |-> None, uid |-> None]
ClaimsOf(s) == [sub |-> s, user_id |-> None, uid |-> None]

\* caller contexts: the session id and the Authorization header's claims
\* every shape of caller context get_sso_user_id_from_context and
\* track_sso_identity tell apart
ServerContexts ==
    { [session_id |-> sid, bearer |-> b,
       claims |-> [sub |-> c1, user_id |-> c2, uid |-> c3]]
        : sid \in Sessions, b \in BOOLEAN, c1 \in Subs \cup {None, ""},
          c2 \in {None, "u7"}, c3 \in {None, "u8"} }

Contexts ==
    { [session_id |-> "sessA", bearer |-> TRUE,  claims |-> ClaimsOf("u1")],
      [session_id |-> "sessB", bearer |-> TRUE,  claims |-> ClaimsOf("u2")],
      [session_id |-> "sessA", bearer |-> FALSE, claims |-> ClaimsOf("u2")] }

\* upstream token endpoint answers
AccessTokens == {None, "", "tokA", "tokB"}
ExpiresIns == {0, TTL_SECONDS + 1}
BB_USER == "_999_1"               \* the upstream's user_id
NoResp == [kind |-> "none", status |-> 0, has_access_token |-> FALSE,
           access_token |-> None, has_expires_in |-> FALSE, expires_in |-> 0,
           user_id |-> None]
Responses ==
    { [kind |-> "transport_error", status |-> 0, has_access_token |-> FALSE,
       access_token |-> None, has_expires_in |-> FALSE, expires_in |-> 0,
       user_id |-> None],
      [kind |-> "http", status |-> HTTP_BAD_REQUEST, has_access_token |-> FALSE,
       access_token |-> None, has_expires_in |-> FALSE, expires_in |-> 0,
       user_id |-> None],
      [kind |-> "http", status |-> HTTP_OK, has_access_token |-> FALSE,
       access_token |-> None, has_expires_in |-> FALSE, expires_in |-> 0,
       user_id |-> None] }
    \cup
    { [kind |-> "http", status |-> HTTP_OK, has_access_token |-> TRUE,
       access_token |-> "tokA", has_expires_in |-> TRUE, expires_in |-> e,
       user_id |-> BB_USER]
        : e \in ExpiresIns }
    \cup
    { [kind |-> "http", status |-> HTTP_OK, has_access_token |-> TRUE,
       access_token |-> t, has_expires_in |-> FALSE, expires_in |-> 0,
       user_id |-> BB_USER]
        : t \in AccessTokens }

\* ------------------------------------------------------------ Python dicts
DictHas(d, k) == \E e \in d : e.key = k
DictGet(d, k) == CHOOSE e \in d : e.key = k
DictDel(d, k) == {e \in d : e.key # k}
\* DictSet adding the entry without dropping the one it replaces
DictSet_append(d, e) == d \cup {e}

DictSet(d, e) == {x \in d : x.key # e.key} \cup {e}

\* program state: the clock, the three tables, the states handed out so far
\* and the exchange_code calls suspended at the upstream POST;
\* history: issued_to[s] is the identity blackboard_login issued state s to,
\* accepted[s] counts the exchange_code calls that got past the state check
\* with s, ever_stored holds the identities an exchange stored a credential for
VARIABLES now, blackboard_tokens, pending_auth, sso_identities,
          issued, inflight, issued_to, accepted, ever_stored

\* the OAuth-proxy variant of the server (src/blackboard_mcp.py, src/auth.py):
\* verified is what verify_token returned last, surface the text the last
\* tool returned to its caller, log the records the last operation logged;
\* history: secret is the bearer token the last operation handled
VARIABLES verified, surface, log, secret

\* the session middleware (src/session_middleware.py): the request dispatch
\* handled last, request.state.mcp_session_id after it, and the
\* Mcp-Session-Id header dispatch put on the response
VARIABLES dispatched, mcp_session_id, response_header

server_vars == <<now, blackboard_tokens, pending_auth, sso_identities,
                 issued, inflight, issued_to, accepted, ever_stored>>
mcp_vars == <<verified, surface, log, secret>>
session_vars == <<dispatched, mcp_session_id, response_header>>
vars == <<now, blackboard_tokens, pending_auth, sso_identities,
          issued, inflight, issued_to, accepted, ever_stored,
          verified, surface, log, secret,
          dispatched, mcp_session_id, response_header>>

\* ------------------------------------------------------------ auth helpers
extract_jwt_claims(ctx) == IF ctx.bearer THEN ctx.claims ELSE EmptyClaims

\* get_sso_user_id_from_context falling back to the session id, as the
\* storage key of track_sso_identity does
get_sso_user_id_from_context_session(ctx) ==
    LET claims == extract_jwt_claims(ctx)
    IN  PyOr(PyOr(PyOr(claims.sub, claims.user_id), claims.uid),
             ctx.session_id)

get_sso_user_id_from_context(ctx) ==
    LET claims == extract_jwt_claims(ctx)
    IN  PyOr(PyOr(claims.sub, claims.user_id), claims.uid)

\* get_blackboard_token reading whatever entry the table holds, not the
\* caller's
get_blackboard_token_any(toks, sso_user_id, t) ==
    IF toks = {}
    THEN [ret |-> None, found |-> FALSE, tokens |-> toks]
    ELSE LET data == CHOOSE e \in toks : TRUE
         IN  IF t >= data.expires_at
             THEN [ret |-> None, found |-> FALSE,
                   tokens |-> DictDel(toks, data.key)]
             ELSE [ret |-> data.access_token, found |-> TRUE, tokens |-> toks]

\* get_blackboard_token comparing the clock with > instead of >=
get_blackboard_token_gt(toks, sso_user_id, t) ==
    IF ~DictHas(toks, sso_user_id)
    THEN [ret |-> None, found |-> FALSE, tokens |-> toks]
    ELSE LET data == DictGet(toks, sso_user_id)
         IN  IF t > data.expires_at
             THEN [ret |-> None, found |-> FALSE,
                   tokens |-> DictDel(toks, sso_user_id)]
             ELSE [ret |-> data.access_token, found |-> TRUE, tokens |-> toks]

\* get_blackboard_token: the value returned and the table it leaves behind
get_blackboard_token(toks, sso_user_id, t) ==
    IF ~DictHas(toks, sso_user_id)
    THEN [ret |-> None, found |-> FALSE, tokens |-> toks]
    ELSE LET data == DictGet(toks, sso_user_id)
         IN  IF t >= data.expires_at
             THEN [ret |-> None, found |-> FALSE,
                   tokens |-> DictDel(toks, sso_user_id)]
             ELSE [ret |-> data.access_token, found |-> TRUE, tokens |-> toks]

is_blackboard_authenticated(toks, sso_user_id, t) ==
    LET r == get_blackboard_token(toks, sso_user_id, t)
    IN  [ret |-> (r.ret # None), tokens |-> r.tokens]

\* make_blackboard_api_call up to the upstream request
make_blackboard_api_call(toks, sso_user_id, t) ==
    LET r == get_blackboard_token(toks, sso_user_id, t)
    IN  IF ~Truthy(r.ret)
        THEN [result |-> "ValueError: Not authenticated to Blackboard",
              upstream |-> FALSE, bearer |-> None, tokens |-> r.tokens]
        ELSE [result |-> "ok", upstream |-> TRUE, bearer |-> r.ret,
              tokens |-> r.tokens]

\* (first_seen, last_seen, sso_email, sso_name and raw_claims are display
\* data that no branch reads; the model keeps the key, the user id and the
\* session list)
track_sso_identity(ids, ctx) ==
    LET session_id  == ctx.session_id
        sso_user_id == get_sso_user_id_from_context(ctx)
        storage_key == IF Truthy(sso_user_id) THEN sso_user_id ELSE session_id
    IN  IF ~DictHas(ids, storage_key)
        THEN DictSet(ids, [key |-> storage_key, sso_user_id |-> sso_user_id,
                           session_ids |-> <<session_id>>])
        ELSE LET old == DictGet(ids, storage_key)
                 seen == \E n \in 1..Len(old.session_ids) :
                             old.session_ids[n] = session_id
             IN  DictSet(ids, [old EXCEPT
                     !.session_ids = IF seen THEN @ ELSE Append(@, session_id)])

\* ------------------------------------------------------- OAuth state table
\* create_auth_state keeping one pending state per identity (a table keyed by
\* identity instead of by state)
create_auth_state_per_identity(pend, sso_user_id, state, t) ==
    {e \in pend : e.sso_user_id # sso_user_id}
        \cup {[key |-> state, sso_user_id |-> sso_user_id, created_at |-> t]}

\* create_auth_state binding the state to another identity than the caller's
create_auth_state_other(pend, sso_user_id, state, t) ==
    DictSet(pend, [key |-> state,
                   sso_user_id |-> CHOOSE u \in Subs : u # sso_user_id,
                   created_at |-> t])

create_auth_state(pend, sso_user_id, state, t) ==
    DictSet(pend, [key |-> state, sso_user_id |-> sso_user_id, created_at |-> t])

\* pending_pop reading the entry without removing it (dict.get for dict.pop)
pending_pop_keep(pend, state) ==
    [found |-> DictHas(pend, state),
     pending |-> IF DictHas(pend, state) THEN DictGet(pend, state)
                 ELSE [key |-> state, sso_user_id |-> None, created_at |-> NoTime],
     pending_auth |-> pend]

\* _pending_auth.pop(state, None): the entry found (if any) and the table left
pending_pop(pend, state) ==
    [found |-> DictHas(pend, state),
     pending |-> IF DictHas(pend, state) THEN DictGet(pend, state)
                 ELSE [key |-> state, sso_user_id |-> None, created_at |-> NoTime],
     pending_auth |-> DictDel(pend, state)]

\* exchange_code_validate comparing the age with >= instead of >
exchange_code_validate_ge(pend, state, t) ==
    LET p == pending_pop(pend, state)
    IN  IF ~p.found
        THEN [result |-> "ValueError: Invalid or expired state",
              sso_user_id |-> None, pending_auth |-> p.pending_auth]
        ELSE IF t - p.pending.created_at >= TTL_SECONDS
        THEN [result |-> "ValueError: Auth session expired",
              sso_user_id |-> p.pending.sso_user_id,
              pending_auth |-> p.pending_auth]
        ELSE [result |-> "await", sso_user_id |-> p.pending.sso_user_id,
              pending_auth |-> p.pending_auth]

\* exchange_code_validate without the "if not pending" test
exchange_code_validate_nocheck(pend, state, t) ==
    LET p == pending_pop(pend, state)
    IN  IF t - p.pending.created_at > TTL_SECONDS
        THEN [result |-> "ValueError: Auth session expired",
              sso_user_id |-> p.pending.sso_user_id,
              pending_auth |-> p.pending_auth]
        ELSE [result |-> "await", sso_user_id |-> p.pending.sso_user_id,
              pending_auth |-> p.pending_auth]

\* exchange_code_validate removing the entry only once its age has passed
\* the test (dict.get, and del after the TTL test, for dict.pop)
exchange_code_validate_latepop(pend, state, t) ==
    LET p == pending_pop(pend, state)
    IN  IF ~p.found
        THEN [result |-> "ValueError: Invalid or expired state",
              sso_user_id |-> None, pending_auth |-> pend]
        ELSE IF t - p.pending.created_at > TTL_SECONDS
        THEN [result |-> "ValueError: Auth session expired",
              sso_user_id |-> p.pending.sso_user_id,
              pending_auth |-> pend]
        ELSE [result |-> "await", sso_user_id |-> p.pending.sso_user_id,
              pending_auth |-> p.pending_auth]

\* exchange_code up to the await of the upstream POST
exchange_code_validate(pend, state, t) ==
    LET p == pending_pop(pend, state)
    IN  IF ~p.found
        THEN [result |-> "ValueError: Invalid or expired state",
              sso_user_id |-> None, pending_auth |-> p.pending_auth]
        ELSE IF t - p.pending.created_at > TTL_SECONDS
        THEN [result |-> "ValueError: Auth session expired",
              sso_user_id |-> p.pending.sso_user_id,
              pending_auth |-> p.pending_auth]
        ELSE [result |-> "await", sso_user_id |-> p.pending.sso_user_id,
              pending_auth |-> p.pending_auth]

\* exchange_code_store forgetting to add expires_in to the clock
exchange_code_store_noadd(toks, sso_user_id, resp, t) ==
    IF resp.kind = "transport_error"
    THEN [result |-> "httpx.TransportError", tokens |-> toks]
    ELSE IF resp.status # HTTP_OK
    THEN [result |-> "ValueError: Token exchange failed", tokens |-> toks]
    ELSE IF ~resp.has_access_token
    THEN [result |-> "KeyError: access_token", tokens |-> toks]
    ELSE [result |-> "ok",
          tokens |-> DictSet(toks,
              [key |-> sso_user_id,
               access_token |-> resp.access_token,
               expires_at |-> t,
               blackboard_user_id |-> resp.user_id,
               refresh_token |-> None])]

\* exchange_code_store dropping the old credential before it looks at the
\* upstream's answer
exchange_code_store_wipe(toks, sso_user_id, resp, t) ==
    IF resp.kind = "transport_error"
    THEN [result |-> "httpx.TransportError",
          tokens |-> DictDel(toks, sso_user_id)]
    ELSE IF resp.status # HTTP_OK
    THEN [result |-> "ValueError: Token exchange failed",
          tokens |-> DictDel(toks, sso_user_id)]
    ELSE IF ~resp.has_access_token
    THEN [result |-> "KeyError: access_token",
          tokens |-> DictDel(toks, sso_user_id)]
    ELSE LET expires_in == IF resp.has_expires_in THEN resp.expires_in
                           ELSE DEFAULT_EXPIRES_IN
         IN  [result |-> "ok",
              tokens |-> DictSet(toks,
                  [key |-> sso_user_id,
                   access_token |-> resp.access_token,
                   expires_at |-> t + expires_in,
                   blackboard_user_id |-> resp.user_id,
                   refresh_token |-> None])]

\* exchange_code_store taking expires_in for minutes
\* (timedelta(minutes=expires_in))
exchange_code_store_minutes(toks, sso_user_id, resp, t) ==
    IF resp.kind = "transport_error"
    THEN [result |-> "httpx.TransportError", tokens |-> toks]
    ELSE IF resp.status # HTTP_OK
    THEN [result |-> "ValueError: Token exchange failed", tokens |-> toks]
    ELSE IF ~resp.has_access_token
    THEN [result |-> "KeyError: access_token", tokens |-> toks]
    ELSE LET expires_in == IF resp.has_expires_in THEN resp.expires_in
                           ELSE DEFAULT_EXPIRES_IN
         IN  [result |-> "ok",
              tokens |-> DictSet(toks,
                  [key |-> sso_user_id,
                   access_token |-> resp.access_token,
                   expires_at |-> t + 60 * expires_in,
                   blackboard_user_id |-> resp.user_id,
                   refresh_token |-> None])]

\* exchange_code from the upstream's answer on
exchange_code_store(toks, sso_user_id, resp, t) ==
    IF resp.kind = "transport_error"
    THEN [result |-> "httpx.TransportError", tokens |-> toks]
    ELSE IF resp.status # HTTP_OK
    THEN [result |-> "ValueError: Token exchange failed", tokens |-> toks]
    ELSE IF ~resp.has_access_token
    THEN [result |-> "KeyError: access_token", tokens |-> toks]
    ELSE LET expires_in == IF resp.has_expires_in THEN resp.expires_in
                           ELSE DEFAULT_EXPIRES_IN
         IN  [result |-> "ok",
              tokens |-> DictSet(toks,
                  [key |-> sso_user_id,
                   access_token |-> resp.access_token,
                   expires_at |-> t + expires_in,
                   blackboard_user_id |-> resp.user_id,
                   refresh_token |-> None])]

\* what exchange_code returns to oauth_callback on success
exchange_code_return(sso_user_id, resp) ==
    [sso_user_id |-> sso_user_id, blackboard_user_id |-> resp.user_id]

\* ------------------------------------------------------------------- tools
\* Each handler is a function of the tables (what it returns and the tables
\* it leaves) and an action that applies it.

\* blackboard_login without the "already authenticated?" test
blackboard_login_run_nocheck(toks, pend, ids, n, t, ctx) ==
    LET sso_user_id == get_sso_user_id_from_context(ctx)
        tracked == track_sso_identity(ids, ctx)
    IN  IF ~Truthy(sso_user_id)
        THEN [result |-> "unable to identify", state |-> NoState,
              sso_identities |-> tracked, blackboard_tokens |-> toks,
              pending_auth |-> pend]
        ELSE [result |-> "auth url", state |-> n + 1,
              sso_identities |-> tracked, blackboard_tokens |-> toks,
              pending_auth |-> create_auth_state(pend, sso_user_id, n + 1, t)]

blackboard_login_run(toks, pend, ids, n, t, ctx) ==
    LET sso_user_id == get_sso_user_id_from_context(ctx)
        tracked == track_sso_identity(ids, ctx)
        auth == is_blackboard_authenticated(toks, sso_user_id, t)
    IN  IF ~Truthy(sso_user_id)
        THEN [result |-> "unable to identify", state |-> NoState,
              sso_identities |-> tracked, blackboard_tokens |-> toks,
              pending_auth |-> pend]
        ELSE IF auth.ret
        THEN [result |-> "already connected", state |-> NoState,
              sso_identities |-> tracked, blackboard_tokens |-> auth.tokens,
              pending_auth |-> pend]
        ELSE [result |-> "auth url", state |-> n + 1,
              sso_identities |-> tracked, blackboard_tokens |-> auth.tokens,
              pending_auth |-> create_auth_state(pend, sso_user_id, n + 1, t)]

blackboard_login(ctx) ==
    LET r == blackboard_login_run(blackboard_tokens, pending_auth,
                                   sso_identities, issued, now, ctx)
    IN  /\ r.result = "auth url" => issued < MaxStates
        /\ sso_identities' = r.sso_identities
        /\ blackboard_tokens' = r.blackboard_tokens
        /\ pending_auth' = r.pending_auth
        /\ issued' = IF r.result = "auth url" THEN issued + 1 ELSE issued
        /\ issued_to' = IF r.result = "auth url"
                        THEN [issued_to EXCEPT ![r.state] =
                                 get_sso_user_id_from_context(ctx)]
                        ELSE issued_to
        /\ UNCHANGED <<now, inflight, accepted, ever_stored>>
        /\ UNCHANGED <<mcp_vars, session_vars>>

blackboard_status_run(toks, ids, t, ctx) ==
    LET sso_user_id == get_sso_user_id_from_context(ctx)
        tracked == track_sso_identity(ids, ctx)
        auth == is_blackboard_authenticated(toks, sso_user_id, t)
    IN  IF ~Truthy(sso_user_id)
        THEN [result |-> "unable to identify", sso_identities |-> tracked,
              blackboard_tokens |-> toks]
        ELSE IF auth.ret
        THEN [result |-> "connected", sso_identities |-> tracked,
              blackboard_tokens |-> auth.tokens]
        ELSE [result |-> "not connected", sso_identities |-> tracked,
              blackboard_tokens |-> auth.tokens]

blackboard_status(ctx) ==
    LET r == blackboard_status_run(blackboard_tokens, sso_identities, now, ctx)
    IN  /\ sso_identities' = r.sso_identities
        /\ blackboard_tokens' = r.blackboard_tokens
        /\ UNCHANGED <<now, pending_auth, issued, inflight, issued_to,
                       accepted, ever_stored>>
        /\ UNCHANGED <<mcp_vars, session_vars>>

\* blackboard_logout raising on an identity without an entry (del without
\* the membership test)
blackboard_logout_run_del(toks, ids, ctx) ==
    LET sso_user_id == get_sso_user_id_from_context(ctx)
        tracked == track_sso_identity(ids, ctx)
    IN  IF ~Truthy(sso_user_id)
        THEN [result |-> "unable to identify", sso_identities |-> tracked,
              blackboard_tokens |-> toks]
        ELSE IF DictHas(toks, sso_user_id)
        THEN [result |-> "disconnected", sso_identities |-> tracked,
              blackboard_tokens |-> DictDel(toks, sso_user_id)]
        ELSE [result |-> "KeyError", sso_identities |-> tracked,
              blackboard_tokens |-> toks]

\* blackboard_logout emptying the whole table (clear() for del)
blackboard_logout_run_clear(toks, ids, ctx) ==
    LET sso_user_id == get_sso_user_id_from_context(ctx)
        tracked == track_sso_identity(ids, ctx)
    IN  IF ~Truthy(sso_user_id)
        THEN [result |-> "unable to identify", sso_identities |-> tracked,
              blackboard_tokens |-> toks]
        ELSE IF DictHas(toks, sso_user_id)
        THEN [result |-> "disconnected", sso_identities |-> tracked,
              blackboard_tokens |-> {}]
        ELSE [result |-> "were not connected", sso_identities |-> tracked,
              blackboard_tokens |-> toks]

blackboard_logout_run(toks, ids, ctx) ==
    LET sso_user_id == get_sso_user_id_from_context(ctx)
        tracked == track_sso_identity(ids, ctx)
    IN  IF ~Truthy(sso_user_id)
        THEN [result |-> "unable to identify", sso_identities |-> tracked,
              blackboard_tokens |-> toks]
        ELSE IF DictHas(toks, sso_user_id)
        THEN [result |-> "disconnected", sso_identities |-> tracked,
              blackboard_tokens |-> DictDel(toks, sso_user_id)]
        ELSE [result |-> "were not connected", sso_identities |-> tracked,
              blackboard_tokens |-> toks]

\* blackboard_logout also dropping the caller's pending states
blackboard_logout_effect_purge(toks, pend, ids, ctx) ==
    LET r == blackboard_logout_run(toks, ids, ctx)
        sso_user_id == get_sso_user_id_from_context(ctx)
    IN  [result |-> r.result, sso_identities |-> r.sso_identities,
         blackboard_tokens |-> r.blackboard_tokens,
         pending_auth |-> {e \in pend : e.sso_user_id # sso_user_id}]

\* the three tables as blackboard_logout leaves them: it never touches
\* _pending_auth
blackboard_logout_effect(toks, pend, ids, ctx) ==
    LET r == blackboard_logout_run(toks, ids, ctx)
    IN  [result |-> r.result, sso_identities |-> r.sso_identities,
         blackboard_tokens |-> r.blackboard_tokens,
         pending_auth |-> pend]

blackboard_logout(ctx) ==
    LET r == blackboard_logout_effect(blackboard_tokens, pending_auth,
                                      sso_identities, ctx)
    IN  /\ sso_identities' = r.sso_identities
        /\ blackboard_tokens' = r.blackboard_tokens
        /\ pending_auth' = r.pending_auth
        /\ UNCHANGED <<now, issued, inflight, issued_to, accepted, ever_stored>>
        /\ UNCHANGED <<mcp_vars, session_vars>>

whoami_run(toks, ids, t, ctx) ==
    LET sso_user_id == get_sso_user_id_from_context(ctx)
        tracked == track_sso_identity(ids, ctx)
        auth == is_blackboard_authenticated(toks, sso_user_id, t)
    IN  IF Truthy(sso_user_id) /\ auth.ret
        THEN [result |-> "connected", sso_identities |-> tracked,
              blackboard_tokens |-> auth.tokens]
        ELSE [result |-> "not connected", sso_identities |-> tracked,
              blackboard_tokens |-> IF Truthy(sso_user_id) THEN auth.tokens
                                    ELSE toks]

whoami(ctx) ==
    LET r == whoami_run(blackboard_tokens, sso_identities, now, ctx)
    IN  /\ sso_identities' = r.sso_identities
        /\ blackboard_tokens' = r.blackboard_tokens
        /\ UNCHANGED <<now, pending_auth, issued, inflight, issued_to,
                       accepted, ever_stored>>
        /\ UNCHANGED <<mcp_vars, session_vars>>

get_blackboard_courses_run(toks, ids, t, ctx) ==
    LET sso_user_id == get_sso_user_id_from_context(ctx)
        tracked == track_sso_identity(ids, ctx)
        call == make_blackboard_api_call(toks, sso_user_id, t)
    IN  IF ~Truthy(sso_user_id)
        THEN [result |-> "unable to identify", upstream |-> FALSE,
              bearer |-> None, sso_identities |-> tracked,
              blackboard_tokens |-> toks]
        ELSE [result |-> call.result, upstream |-> call.upstream,
              bearer |-> call.bearer, sso_identities |-> tracked,
              blackboard_tokens |-> call.tokens]

get_blackboard_courses(ctx) ==
    LET r == get_blackboard_courses_run(blackboard_tokens, sso_identities,
                                         now, ctx)
    IN  /\ sso_identities' = r.sso_identities
        /\ blackboard_tokens' = r.blackboard_tokens
        /\ UNCHANGED <<now, pending_auth, issued, inflight, issued_to,
                       accepted, ever_stored>>
        /\ UNCHANGED <<mcp_vars, session_vars>>

\* ---------------------------------------------------------- OAuth callback
\* oauth_callback handing the state to exchange_code before it looks at the
\* error parameter and at the code
oauth_callback_run_consume_first(toks, pend, t, code, state, error) ==
    LET v == exchange_code_validate(pend, state, t)
    IN  IF Truthy(error)
        THEN [result |-> "400 Authorization Failed", sso_user_id |-> None,
              upstream |-> FALSE, pending_auth |-> v.pending_auth,
              blackboard_tokens |-> toks]
        ELSE IF ~Truthy(code) \/ state = NoState
        THEN [result |-> "400 Missing code or state", sso_user_id |-> None,
              upstream |-> FALSE, pending_auth |-> v.pending_auth,
              blackboard_tokens |-> toks]
        ELSE [result |-> v.result, sso_user_id |-> v.sso_user_id,
              upstream |-> (v.result = "await"),
              pending_auth |-> v.pending_auth, blackboard_tokens |-> toks]

\* oauth_callback up to the await inside exchange_code; upstream tells
\* whether the token endpoint is called
oauth_callback_run(toks, pend, t, code, state, error) ==
    LET v == exchange_code_validate(pend, state, t)
    IN  IF Truthy(error)
        THEN [result |-> "400 Authorization Failed", sso_user_id |-> None,
              upstream |-> FALSE, pending_auth |-> pend,
              blackboard_tokens |-> toks]
        ELSE IF ~Truthy(code) \/ state = NoState
        THEN [result |-> "400 Missing code or state", sso_user_id |-> None,
              upstream |-> FALSE, pending_auth |-> pend,
              blackboard_tokens |-> toks]
        ELSE [result |-> v.result, sso_user_id |-> v.sso_user_id,
              upstream |-> (v.result = "await"),
              pending_auth |-> v.pending_auth, blackboard_tokens |-> toks]

oauth_callback(code, state, error) ==
    LET r == oauth_callback_run(blackboard_tokens, pending_auth, now,
                                code, state, error)
    IN  /\ r.upstream => BagCardinality(inflight) < MaxInflight
        /\ pending_auth' = r.pending_auth
        /\ blackboard_tokens' = r.blackboard_tokens
        /\ inflight' = IF r.upstream
                       THEN inflight (+) SetToBag(
                              {[state |-> state, sso_user_id |-> r.sso_user_id,
                                code |-> code]})
                       ELSE inflight
        /\ accepted' = IF r.upstream /\ state \in DOMAIN accepted
                       THEN [accepted EXCEPT ![state] = @ + 1]
                       ELSE accepted
        /\ UNCHANGED <<now, sso_identities, issued, issued_to, ever_stored>>
        /\ UNCHANGED <<mcp_vars, session_vars>>

\* the upstream answers an exchange in flight: the rest of exchange_code and
\* of oauth_callback
oauth_callback_resume(call, resp) ==
    LET r == exchange_code_store(blackboard_tokens, call.sso_user_id, resp, now)
    IN  /\ BagIn(call, inflight)
        /\ inflight' = inflight (-) SetToBag({call})
        /\ blackboard_tokens' = r.tokens
        /\ ever_stored' = IF r.result = "ok"
                          THEN ever_stored \cup {call.sso_user_id}
                          ELSE ever_stored
        /\ UNCHANGED <<now, pending_auth, sso_identities, issued, issued_to,
                       accepted>>
        /\ UNCHANGED <<mcp_vars, session_vars>>

\* the clock moves on
Tick ==
    /\ \E t \in Instants : t > now /\ now' = t
    /\ UNCHANGED <<blackboard_tokens, pending_auth, sso_identities, issued,
                   inflight, issued_to, accepted, ever_stored>>
    /\ UNCHANGED <<mcp_vars, session_vars>>

\* ------------------------------- src/blackboard_mcp.py and src/auth.py
\* Strings whose characters matter (bearer tokens) are sequences of
\* character codes.
DEBUG_PREVIEW == 8        \* access_token[:8]
VERIFY_PREVIEW_MIN == 16  \* token_len > 16
VERIFY_HEAD == 12         \* token[:12]
VERIFY_TAIL == 4          \* token[-4:]

EmptyStr == << >>
TokShort == <<1, 2, 3, 4, 5>>
Tok16 == [i \in 1..VERIFY_PREVIEW_MIN |-> 20 + i]
TokLong == [i \in 1..(VERIFY_PREVIEW_MIN + 1) |-> 40 + i]
BearerTokens == {EmptyStr, TokShort, Tok16, TokLong}

Prefix(str, n) == SubSeq(str, 1, IF Len(str) < n THEN Len(str) ELSE n)
Suffix(str, n) == SubSeq(str, IF Len(str) < n THEN 1 ELSE Len(str) - n + 1,
                         Len(str))

\* what get_access_token() hands to a tool: nothing, or an AccessToken with
\* its token string and claims
NoAccessToken == [present |-> FALSE, token |-> EmptyStr, sub |-> None,
                  username |-> None]
AccessTokenObjects ==
    {NoAccessToken} \cup
    { [present |-> TRUE, token |-> t, sub |-> u, username |-> n]
        : t \in BearerTokens, u \in Subs \cup {None, ""},
          n \in {None, "alice"} }

McpSessions == {None, "sessA", "sessB"}

\* answers of GET /learn/api/public/v1/users/me
UsersMeResponses ==
    { [kind |-> "transport_error", status |-> 0, id |-> None,
       userName |-> None] }
    \cup { [kind |-> "http", status |-> st, id |-> None, userName |-> None]
             : st \in {401, 403, 500} }
    \cup { [kind |-> "http", status |-> HTTP_OK, id |-> u, userName |-> "alice"]
             : u \in Subs \cup {None} }

NoSurface == [tool |-> "none", user_id |-> None, session_id |-> None,
              sub |-> None, has_token |-> FALSE, token_preview |-> EmptyStr,
              text |-> None]

\* verify_token without the check of the user id in the answer
verify_token_noid(token, resp) ==
    LET token_len == Len(token)
        preview == IF token_len > VERIFY_PREVIEW_MIN
                   THEN [event |-> "Token preview",
                         head |-> Prefix(token, VERIFY_HEAD),
                         tail |-> Suffix(token, VERIFY_TAIL),
                         len |-> token_len]
                   ELSE [event |-> "Token preview", head |-> EmptyStr,
                         tail |-> EmptyStr, len |-> token_len]
        outcome == [event |-> "outcome", head |-> EmptyStr, tail |-> EmptyStr,
                    len |-> 0]
    IN  IF token = EmptyStr
        THEN [ret |-> NoAccessToken,
              log |-> {preview, [outcome EXCEPT !.event = "No token provided"]}]
        ELSE IF resp.kind = "transport_error"
        THEN [ret |-> NoAccessToken,
              log |-> {preview,
                       [outcome EXCEPT !.event = "Token verification error"]}]
        ELSE IF resp.status # HTTP_OK
        THEN [ret |-> NoAccessToken,
              log |-> {preview,
                       [outcome EXCEPT !.event = "Token verification failed"]}]
        ELSE [ret |-> [present |-> TRUE, token |-> token, sub |-> resp.id,
                       username |-> resp.userName],
              log |-> {preview, [outcome EXCEPT !.event = "TOKEN VERIFIED"]}]

\* BlackboardTokenVerifier.verify_token: the AccessToken returned (or none)
\* and the records logged
verify_token(token, resp) ==
    LET token_len == Len(token)
        preview == IF token_len > VERIFY_PREVIEW_MIN
                   THEN [event |-> "Token preview",
                         head |-> Prefix(token, VERIFY_HEAD),
                         tail |-> Suffix(token, VERIFY_TAIL),
                         len |-> token_len]
                   ELSE [event |-> "Token preview", head |-> EmptyStr,
                         tail |-> EmptyStr, len |-> token_len]
        outcome == [event |-> "outcome", head |-> EmptyStr, tail |-> EmptyStr,
                    len |-> 0]
    IN  IF token = EmptyStr
        THEN [ret |-> NoAccessToken,
              log |-> {preview, [outcome EXCEPT !.event = "No token provided"]}]
        ELSE IF resp.kind = "transport_error"
        THEN [ret |-> NoAccessToken,
              log |-> {preview,
                       [outcome EXCEPT !.event = "Token verification error"]}]
        ELSE IF resp.status # HTTP_OK
        THEN [ret |-> NoAccessToken,
              log |-> {preview,
                       [outcome EXCEPT !.event = "Token verification failed"]}]
        ELSE IF ~Truthy(resp.id)
        THEN [ret |-> NoAccessToken,
              log |-> {preview,
                       [outcome EXCEPT !.event = "No user id in response"]}]
        ELSE [ret |-> [present |-> TRUE, token |-> token, sub |-> resp.id,
                       username |-> resp.userName],
              log |-> {preview, [outcome EXCEPT !.event = "TOKEN VERIFIED"]}]

\* _get_oauth_access_token_str: the token string, or RuntimeError
get_oauth_access_token_str(token_obj) ==
    IF token_obj.present /\ token_obj.token # EmptyStr
    THEN [ok |-> TRUE, val |-> token_obj.token]
    ELSE [ok |-> FALSE, val |-> EmptyStr]

\* get_user_id preferring the session id to the token's subject
get_user_id_session_first(token_obj, session_id) ==
    IF session_id # None THEN session_id
    ELSE IF Truthy(token_obj.sub) THEN token_obj.sub
    ELSE "unknown"

\* get_user_id: the 'sub' claim of the request's token, else the session id
get_user_id(token_obj, session_id) ==
    IF Truthy(token_obj.sub) THEN token_obj.sub
    ELSE IF session_id # None THEN session_id
    ELSE "unknown"

\* debug_identity: the text returned to the caller
debug_identity_run(token_obj, session_id) ==
    LET user_id == get_user_id(token_obj, session_id)
        tok == get_oauth_access_token_str(token_obj)
    IN  [tool |-> "debug_identity", user_id |-> user_id,
         session_id |-> session_id, sub |-> token_obj.sub,
         has_token |-> tok.ok,
         token_preview |-> IF tok.ok THEN Prefix(tok.val, DEBUG_PREVIEW)
                           ELSE EmptyStr,
         text |-> None]

\* get_my_courses: the text returned to the caller (api_ok: whether the
\* Blackboard client call succeeded)
get_my_courses_run(token_obj, session_id, api_ok) ==
    LET user_id == get_user_id(token_obj, session_id)
        tok == get_oauth_access_token_str(token_obj)
    IN  [NoSurface EXCEPT
            !.tool = "get_my_courses",
            !.text = IF ~tok.ok
                     THEN "Error fetching courses: Could not extract access token"
                     ELSE IF api_ok THEN "Your Courses"
                     ELSE "Error fetching courses"]

\* the records get_user_id logs
get_user_id_log(token_obj) ==
    {[event |-> IF Truthy(token_obj.sub) THEN "User ID from token claims"
                ELSE "No 'sub' claim found in token claims",
      head |-> EmptyStr, tail |-> EmptyStr, len |-> 0]}

verify_token_request(token, resp) ==
    LET r == verify_token(token, resp)
    IN  /\ verified' = r.ret
        /\ log' = r.log
        /\ secret' = token
        /\ UNCHANGED surface
        /\ UNCHANGED <<server_vars, session_vars>>

debug_identity(token_obj, session_id) ==
    /\ surface' = debug_identity_run(token_obj, session_id)
    /\ log' = get_user_id_log(token_obj)
    /\ secret' = token_obj.token
    /\ UNCHANGED verified
    /\ UNCHANGED <<server_vars, session_vars>>

get_my_courses(token_obj, session_id, api_ok) ==
    /\ surface' = get_my_courses_run(token_obj, session_id, api_ok)
    /\ log' = get_user_id_log(token_obj)
    /\ secret' = token_obj.token
    /\ UNCHANGED verified
    /\ UNCHANGED <<server_vars, session_vars>>

\* ------------------------------------------- src/session_middleware.py
\* request.url.path: the paths that start with "/mcp" and the others
McpPaths == {"/mcp", "/mcp/messages"}
OtherPaths == {"/oauth/callback", "/health"}
Methods == {"GET", "POST", "DELETE"}
\* the Mcp-Session-Id request header: absent, empty, or a session id
SessionHeaders == {None, "", "sess-1", "sess-2"}
\* the request body: a JSON-RPC object with method "initialize" or another
\* method or none, JSON that is no object, no JSON, or a body whose read
\* fails
Bodies == {"initialize", "tools/call", "no method", "json array",
           "invalid json", "unreadable"}
\* str(uuid.uuid4())
Uuids == {"uuid-1", "uuid-2"}
Requests == [path : McpPaths \cup OtherPaths, method : Methods,
             header : SessionHeaders, body : Bodies]
NoRequest == [path |-> None, method |-> None, header |-> None, body |-> None]
\* request.state has no attribute mcp_session_id
Unset == "<unset>"

\* data.get("method") of json.loads(body): the method, None for an object
\* without one, and an exception otherwise
json_method(body) ==
    CASE body = "initialize" -> [ok |-> TRUE, method |-> "initialize"]
      [] body = "tools/call" -> [ok |-> TRUE, method |-> "tools/call"]
      [] body = "no method"  -> [ok |-> TRUE, method |-> None]
      [] OTHER               -> [ok |-> FALSE, method |-> None]

\* MCPSessionMiddleware.dispatch: what it leaves in request.state and on the
\* response (uuid4: the id uuid.uuid4() would return)
dispatch_run(request, uuid4) ==
    IF request.path \notin McpPaths
    THEN [mcp_session_id |-> Unset, response_header |-> None]
    ELSE LET header == PyOr(request.header, request.header)
             data == json_method(request.body)
             session_id ==
                 IF /\ request.method = "POST"
                    /\ data.ok
                    /\ data.method = "initialize"
                    /\ ~Truthy(header)
                 THEN uuid4 ELSE header
             has_body == request.method = "POST" /\ request.body # "unreadable"
         IN  [mcp_session_id |-> session_id,
              response_header |->
                  IF /\ Truthy(session_id)
                     /\ has_body
                     /\ data.ok
                     /\ data.method = "initialize"
                  THEN session_id ELSE None]

dispatch(request, uuid4) ==
    LET r == dispatch_run(request, uuid4)
    IN  /\ dispatched' = request
        /\ mcp_session_id' = r.mcp_session_id
        /\ response_header' = r.response_header
        /\ UNCHANGED <<server_vars, mcp_vars>>

Codes == {None, "abc"}
Errors == {None, "access_denied"}
CallbackStates == {NoState, Bogus} \cup (1..issued)

Init ==
    /\ now = 0
    /\ blackboard_tokens = {}
    /\ pending_auth = {}
    /\ sso_identities = {}
    /\ issued = 0
    /\ inflight = EmptyBag
    /\ issued_to = [s \in 1..MaxStates |-> None]
    /\ accepted = [s \in 1..MaxStates |-> 0]
    /\ ever_stored = {}
    /\ verified = NoAccessToken
    /\ surface = NoSurface
    /\ log = {}
    /\ secret = EmptyStr
    /\ dispatched = NoRequest
    /\ mcp_session_id = Unset
    /\ response_header = None

Next ==
    \/ Tick
    \/ \E ctx \in Contexts : blackboard_login(ctx)
    \/ \E ctx \in Contexts : blackboard_status(ctx)
    \/ \E ctx \in Contexts : blackboard_logout(ctx)
    \/ \E ctx \in Contexts : whoami(ctx)
    \/ \E ctx \in Contexts : get_blackboard_courses(ctx)
    \/ \E code \in Codes, state \in CallbackStates, error \in Errors :
           oauth_callback(code, state, error)
    \/ \E call \in BagToSet(inflight), resp \in Responses :
           oauth_callback_resume(call, resp)

Spec == Init /\ [][Next]_vars

\* what runs without anybody asking for it: the clock, and the upstream POST
\* of an exchange in flight, which answers or fails within its 30 s timeout;
\* tool calls and callbacks come only when a user or a browser sends them
SpecLive ==
    /\ Spec
    /\ WF_vars(Tick)
    /\ WF_vars(\E call \in BagToSet(inflight), resp \in Responses :
                   oauth_callback_resume(call, resp))

\* the OAuth-proxy variant: requests are verified, tools answer
NextMcp ==
    \/ \E token \in BearerTokens, resp \in UsersMeResponses :
           verify_token_request(token, resp)
    \/ \E token_obj \in AccessTokenObjects, session_id \in McpSessions :
           debug_identity(token_obj, session_id)
    \/ \E token_obj \in AccessTokenObjects, session_id \in McpSessions,
          api_ok \in BOOLEAN :
           get_my_courses(token_obj, session_id, api_ok)

SpecMcp == Init /\ [][NextMcp]_vars

\* the session middleware in front of the /mcp endpoint
NextSession ==
    \E request \in Requests, uuid4 \in Uuids : dispatch(request, uuid4)

SpecSession == Init /\ [][NextSession]_vars

\* ================================================================== claims
\* the error kinds of the broker's taxonomy, by what exchange_code raises
Kind(result) ==
    CASE result \in {"ValueError: Invalid or expired state",
                     "ValueError: Auth session expired"}
             -> "ExpiredOrInvalidState"
      [] result = "ValueError: Token exchange failed" -> "UpstreamExchangeError"
      [] result \in {"ok", "await"} -> "none"
      [] OTHER -> "untyped"

UpstreamSuccess(resp) ==
    resp.kind = "http" /\ resp.status = HTTP_OK /\ resp.has_access_token

ExpiresInOf(resp) ==
    IF resp.has_expires_in THEN resp.expires_in ELSE DEFAULT_EXPIRES_IN

Calls == BagToSet(inflight)
InFlightStates == {c.state : c \in Calls}
KnownStates == {Bogus} \cup (1..issued)
IdOf(ctx) == get_sso_user_id_from_context(ctx)
Identified == {ctx \in Contexts : Truthy(IdOf(ctx))}
EntryOf(toks, u) == {e \in toks : e.key = u}
Live(u) == is_blackboard_authenticated(blackboard_tokens, u, now).ret

\* what each tool leaves in the credential table when ctx calls it now
ToolTables(ctx) ==
    { blackboard_login_run(blackboard_tokens, pending_auth, sso_identities,
                           issued, now, ctx).blackboard_tokens,
      blackboard_status_run(blackboard_tokens, sso_identities, now,
                            ctx).blackboard_tokens,
      blackboard_logout_run(blackboard_tokens, sso_identities,
                            ctx).blackboard_tokens,
      whoami_run(blackboard_tokens, sso_identities, now, ctx).blackboard_tokens,
      get_blackboard_courses_run(blackboard_tokens, sso_identities, now,
                                 ctx).blackboard_tokens }

\* C1: a state is single-use under interleaving: no state gets past the state
\* check of exchange_code twice; once one call has taken it, every other call
\* with it fails with ExpiredOrInvalidState and reaches no upstream; and the
\* call that took it succeeds when the upstream answers with a token.
C1_StateSingleUse ==
    /\ \A s \in 1..issued :
         /\ accepted[s] <= 1
         /\ accepted[s] >= 1 =>
              LET r == oauth_callback_run(blackboard_tokens, pending_auth, now,
                                          "abc", s, None)
              IN  /\ r.result = "ValueError: Invalid or expired state"
                  /\ Kind(r.result) = "ExpiredOrInvalidState"
                  /\ ~r.upstream
    /\ \A c \in Calls, resp \in Responses :
         UpstreamSuccess(resp) =>
             exchange_code_store(blackboard_tokens, c.sso_user_id, resp,
                                 now).result = "ok"

\* one call holds the state and awaits the upstream while the state's
\* callback can be delivered again
C1_Witness ==
    \E s \in 1..issued : accepted[s] = 1 /\ s \in InFlightStates

\* C2 (as amended): when exchange_code succeeds on an upstream answer whose
\* access_token is not null and whose expires_in is positive (or absent),
\* then straight afterwards status reports connected and get_blackboard_token
\* returns exactly the access token of that answer.
C2_ConnectedAfterSuccess ==
    \A c \in Calls, resp \in Responses :
        LET r == exchange_code_store(blackboard_tokens, c.sso_user_id, resp, now)
        IN  (r.result = "ok" /\ resp.access_token # None /\ ExpiresInOf(resp) > 0)
            => /\ get_blackboard_token(r.tokens, c.sso_user_id, now).ret
                      = resp.access_token
               /\ \A ctx \in Identified :
                      IdOf(ctx) = c.sso_user_id =>
                          blackboard_status_run(r.tokens, sso_identities, now,
                                                ctx).result = "connected"

\* C2 as stated: the same for every upstream answer exchange_code accepts
C2_Original ==
    \A c \in Calls, resp \in Responses :
        LET r == exchange_code_store(blackboard_tokens, c.sso_user_id, resp, now)
        IN  r.result = "ok"
            => /\ get_blackboard_token(r.tokens, c.sso_user_id, now).ret
                      = resp.access_token
               /\ \A ctx \in Identified :
                      IdOf(ctx) = c.sso_user_id =>
                          blackboard_status_run(r.tokens, sso_identities, now,
                                                ctx).result = "connected"

\* a credential stored at this instant from an answer with expires_in = 301,
\* which status reports as connected
C2_Witness ==
    \E e \in blackboard_tokens :
        /\ e.expires_at = now + TTL_SECONDS + 1
        /\ e.access_token = "tokA"
        /\ e.key \in ever_stored
        /\ Live(e.key)

\* C3: no cross-tenant leakage: every pending state and every exchange in
\* flight carries the identity blackboard_login issued the state to, every
\* credential belongs to an identity an exchange stored one for, and no
\* operation changes the credential of an identity other than the one it
\* runs for (the caller of a tool, the identity the state was issued to).
C3_NoCrossTenant ==
    /\ \A e \in pending_auth : e.sso_user_id = issued_to[e.key]
    /\ \A c \in Calls : c.sso_user_id = issued_to[c.state]
    /\ \A e \in blackboard_tokens : e.key \in ever_stored
    /\ \A c \in Calls, resp \in Responses :
       \A u \in Subs \ {issued_to[c.state]} :
         EntryOf(exchange_code_store(blackboard_tokens, c.sso_user_id, resp,
                                     now).tokens, u)
             = EntryOf(blackboard_tokens, u)
    /\ \A ctx \in Contexts :
       \A u \in Subs \ {IdOf(ctx)}, toks \in ToolTables(ctx) :
         EntryOf(toks, u) = EntryOf(blackboard_tokens, u)
    /\ \A code \in Codes, s \in CallbackStates, error \in Errors :
         oauth_callback_run(blackboard_tokens, pending_auth, now, code, s,
                            error).blackboard_tokens = blackboard_tokens

\* one identity holds a live credential while an exchange of the other
\* identity is in flight
C3_Witness ==
    \E e \in blackboard_tokens, c \in Calls :
        e.key # c.sso_user_id /\ Live(e.key)

\* C4: a credential at or past its expires_at is treated as absent by every
\* read path: get_blackboard_token returns None, status and whoami report not
\* connected, get_blackboard_courses is not authenticated, and
\* blackboard_logout answers as for an identity that was not connected.
C4_ExpiredIsAbsent ==
    \A ctx \in Identified :
        \A e \in EntryOf(blackboard_tokens, IdOf(ctx)) :
            now >= e.expires_at =>
                /\ get_blackboard_token(blackboard_tokens, IdOf(ctx), now).ret
                       = None
                /\ ~Live(IdOf(ctx))
                /\ blackboard_status_run(blackboard_tokens, sso_identities, now,
                                         ctx).result = "not connected"
                /\ whoami_run(blackboard_tokens, sso_identities, now,
                              ctx).result = "not connected"
                /\ get_blackboard_courses_run(blackboard_tokens, sso_identities,
                                              now, ctx).result
                       = "ValueError: Not authenticated to Blackboard"
                /\ blackboard_logout_run(blackboard_tokens, sso_identities,
                                         ctx).result = "were not connected"

\* C5: exchange_code gets past the state check with the bound identity exactly
\* when the state is in the registry and now - created_at <= 300 s; every
\* other state, one older than the TTL included, is rejected with
\* ExpiredOrInvalidState, though nothing ever sweeps the registry; either way
\* the state is gone from the registry.
C5_PassiveTtl ==
    \A s \in KnownStates :
        LET v == exchange_code_validate(pending_auth, s, now)
            fresh == /\ DictHas(pending_auth, s)
                     /\ now - DictGet(pending_auth, s).created_at <= TTL_SECONDS
        IN  /\ fresh => v.result = "await" /\ v.sso_user_id = issued_to[s]
            /\ ~fresh => Kind(v.result) = "ExpiredOrInvalidState"
            /\ ~DictHas(v.pending_auth, s)

\* a pending state exactly TTL old, which exchange_code still accepts
C5_Witness ==
    \E e \in pending_auth :
        /\ now - e.created_at = TTL_SECONDS
        /\ exchange_code_validate(pending_auth, e.key, now).result = "await"

\* C6: an exchange that fails (transport error, status other than 200, answer
\* without access_token) leaves the credential table exactly as it was, so
\* get_blackboard_token returns for every identity what it returned before.
C6_FailedExchangeKeepsStore ==
    \A c \in Calls, resp \in Responses :
        LET r == exchange_code_store(blackboard_tokens, c.sso_user_id, resp, now)
        IN  /\ ~UpstreamSuccess(resp) => r.result # "ok"
            /\ r.result # "ok" =>
                 /\ r.tokens = blackboard_tokens
                 /\ \A u \in Subs :
                      get_blackboard_token(r.tokens, u, now)
                          = get_blackboard_token(blackboard_tokens, u, now)

\* an exchange in flight for an identity that holds a live credential
C6_Witness ==
    \E c \in Calls : Live(c.sso_user_id) /\ accepted[c.state] = 1

\* C7: a callback with a state that is not in the registry (never issued, or
\* consumed before) fails with ExpiredOrInvalidState, reaches no upstream and
\* changes neither the credential table nor the registry.
C7_UnknownStateRejected ==
    \A s \in KnownStates :
        ~DictHas(pending_auth, s) =>
            LET r == oauth_callback_run(blackboard_tokens, pending_auth, now,
                                        "abc", s, None)
            IN  /\ Kind(r.result) = "ExpiredOrInvalidState"
                /\ ~r.upstream
                /\ r.pending_auth = pending_auth
                /\ r.blackboard_tokens = blackboard_tokens

\* a consumed state, with a credential stored and another state still pending
C7_Witness ==
    /\ \E s \in 1..issued : accepted[s] = 1 /\ ~DictHas(pending_auth, s)
    /\ blackboard_tokens # {}
    /\ pending_auth # {}

\* C8: blackboard_logout twice in a row: neither call raises, the second
\* leaves the tables as the first left them, and after each of them status
\* reports not connected and get_blackboard_token returns None.
C8_RevokeIdempotent ==
    \A ctx \in Contexts :
        LET r1 == blackboard_logout_run(blackboard_tokens, sso_identities, ctx)
            r2 == blackboard_logout_run(r1.blackboard_tokens,
                                        r1.sso_identities, ctx)
            answers == {"disconnected", "were not connected",
                        "unable to identify"}
        IN  /\ r1.result \in answers /\ r2.result \in answers
            /\ r2.blackboard_tokens = r1.blackboard_tokens
            /\ r2.sso_identities = r1.sso_identities
            /\ Truthy(IdOf(ctx)) =>
                 \A toks \in {r1.blackboard_tokens, r2.blackboard_tokens} :
                     /\ blackboard_status_run(toks, r1.sso_identities, now,
                                              ctx).result = "not connected"
                     /\ get_blackboard_token(toks, IdOf(ctx), now).ret = None

\* an identity with a live credential, which the first logout removes
C8_Witness ==
    \E ctx \in Identified :
        /\ Live(IdOf(ctx))
        /\ blackboard_logout_run(blackboard_tokens, sso_identities,
                                 ctx).result = "disconnected"

\* C9: for an identity no exchange has ever stored a credential for,
\* get_blackboard_token returns None, make_blackboard_api_call raises "Not
\* authenticated" without an upstream request and status reports not
\* connected, whatever the other identities have done.
C9_NoAuthorizationNoCredential ==
    \A ctx \in Identified :
        IdOf(ctx) \notin ever_stored =>
            LET call == get_blackboard_courses_run(blackboard_tokens,
                                                   sso_identities, now, ctx)
            IN  /\ get_blackboard_token(blackboard_tokens, IdOf(ctx), now).ret
                       = None
                /\ call.result = "ValueError: Not authenticated to Blackboard"
                /\ ~call.upstream
                /\ blackboard_status_run(blackboard_tokens, sso_identities, now,
                                         ctx).result = "not connected"

\* one identity holds a live credential, the other never completed a flow
C9_Witness ==
    \E u \in Subs, w \in Subs :
        /\ u \notin ever_stored
        /\ w \in ever_stored /\ Live(w)
        /\ \E s \in 1..issued : issued_to[s] = u

\* C10: the table holds at most one credential per identity, and a successful
\* exchange for an identity leaves exactly one entry for it, the one with the
\* access token of that exchange, whatever it held before.
C10_OneCredentialLastWriterWins ==
    /\ \A e1 \in blackboard_tokens, e2 \in blackboard_tokens :
         e1.key = e2.key => e1 = e2
    /\ \A c \in Calls, resp \in Responses :
         LET r == exchange_code_store(blackboard_tokens, c.sso_user_id, resp,
                                      now)
         IN  r.result = "ok" =>
                 /\ Cardinality(EntryOf(r.tokens, c.sso_user_id)) = 1
                 /\ \A e \in EntryOf(r.tokens, c.sso_user_id) :
                        /\ e.access_token = resp.access_token
                        /\ e.expires_at = now + ExpiresInOf(resp)
                 /\ get_blackboard_token(r.tokens, c.sso_user_id, now).ret
                        \in {resp.access_token, None}

\* an identity that holds the credential of one completed exchange while a
\* second exchange for it is in flight
C10_Witness ==
    \E c \in Calls, e \in blackboard_tokens :
        /\ e.key = c.sso_user_id
        /\ \E s \in 1..issued :
               s # c.state /\ issued_to[s] = e.key /\ accepted[s] = 1

\* C11: every consumption attempt that finds a pending state removes it,
\* whether the attempt then passes the TTL test or not and whatever the
\* upstream answers: a state an exchange_code call took is not in the registry
\* (during the exchange and after it), a callback with a state in the registry
\* leaves the registry without it, and a second callback with that state
\* fails with "Invalid or expired state".
C11_ConsumptionRemoves ==
    /\ \A s \in 1..issued : accepted[s] >= 1 => ~DictHas(pending_auth, s)
    /\ \A c \in Calls : ~DictHas(pending_auth, c.state)
    /\ \A s \in 1..issued :
         DictHas(pending_auth, s) =>
             LET r1 == oauth_callback_run(blackboard_tokens, pending_auth, now,
                                          "abc", s, None)
                 r2 == oauth_callback_run(r1.blackboard_tokens, r1.pending_auth,
                                          now, "abc", s, None)
             IN  /\ ~DictHas(r1.pending_auth, s)
                 /\ r2.result = "ValueError: Invalid or expired state"
                 /\ ~r2.upstream

\* one state was consumed by an exchange that stored nothing (the upstream
\* failed), another one sits in the registry past its TTL
C11_Witness ==
    /\ \E s \in 1..issued :
         /\ accepted[s] = 1 /\ s \notin InFlightStates
         /\ issued_to[s] \notin ever_stored
    /\ \E e \in pending_auth : now - e.created_at > TTL_SECONDS

\* C12: blackboard_login for an identity that holds a live credential answers
\* "already connected", creates no pending state and leaves the credential
\* table as it is, and so does every repetition of the call.
C12_LoginWhenConnectedIsNoOp ==
    \A ctx \in Identified :
        Live(IdOf(ctx)) =>
            LET r1 == blackboard_login_run(blackboard_tokens, pending_auth,
                                           sso_identities, issued, now, ctx)
                r2 == blackboard_login_run(r1.blackboard_tokens,
                                           r1.pending_auth, r1.sso_identities,
                                           issued, now, ctx)
            IN  /\ r1.result = "already connected"
                /\ r1.state = NoState
                /\ r1.pending_auth = pending_auth
                /\ r1.blackboard_tokens = blackboard_tokens
                /\ r2 = r1

\* an identity with a live credential calls blackboard_login while a state
\* could still be handed out
C12_Witness ==
    \E ctx \in Identified :
        /\ Live(IdOf(ctx))
        /\ issued < MaxStates
        /\ blackboard_login_run(blackboard_tokens, pending_auth, sso_identities,
                                issued, now, ctx).result = "already connected"

\* a non-empty run of characters of sec shown in field
Leaks(field, sec) ==
    /\ field # EmptyStr
    /\ \E i \in 1..Len(sec) :
         /\ i + Len(field) - 1 <= Len(sec)
         /\ SubSeq(sec, i, i + Len(field) - 1) = field

\* C13: no plaintext secret reaches the tool surface or the logs: the text a
\* tool returns and the records an operation logs hold no run of characters
\* of the bearer token the operation handled, and what exchange_code returns
\* holds no access token.
C13_NoSecretOnSurface ==
    /\ ~Leaks(surface.token_preview, secret)
    /\ \A r \in log : ~Leaks(r.head, secret) /\ ~Leaks(r.tail, secret)
    /\ \A u \in Subs, resp \in Responses :
         Truthy(resp.access_token) =>
             LET ret == exchange_code_return(u, resp)
             IN  /\ ret.sso_user_id # resp.access_token
                 /\ ret.blackboard_user_id # resp.access_token

\* C14: every entry of the credential table holds the credential sealed: the
\* access_token field of an entry is never the plaintext access token of an
\* upstream answer, neither in a reachable table nor in the table a
\* successful exchange leaves.
C14_StoredSealed ==
    /\ \A e \in blackboard_tokens :
         ~(Truthy(e.access_token) /\ e.access_token \in AccessTokens)
    /\ \A c \in Calls, resp \in Responses :
         LET r == exchange_code_store(blackboard_tokens, c.sso_user_id, resp,
                                      now)
         IN  (r.result = "ok" /\ Truthy(resp.access_token)) =>
                 \A e \in EntryOf(r.tokens, c.sso_user_id) :
                     e.access_token # resp.access_token

\* C15: every outcome of exchange_code is success or one of the kinds
\* ExpiredOrInvalidState and UpstreamExchangeError: the state check ends in
\* ExpiredOrInvalidState or goes on, and the exchange ends in success or
\* UpstreamExchangeError whatever the upstream does (transport failure,
\* timeout, a 200 answer without access_token).
C15_TypedOutcomes ==
    /\ \A s \in KnownStates :
         Kind(exchange_code_validate(pending_auth, s, now).result)
             \in {"none", "ExpiredOrInvalidState"}
    /\ \A c \in Calls, resp \in Responses :
         Kind(exchange_code_store(blackboard_tokens, c.sso_user_id, resp,
                                  now).result)
             \in {"none", "UpstreamExchangeError"}

\* C16: identity resolution prefers the subject claim and is deterministic:
\* get_user_id returns the token's 'sub' whenever there is one, whatever the
\* session id, and the session id only when there is none; debug_identity
\* shows that identity; get_sso_user_id_from_context returns the 'sub' of
\* the bearer's claims whenever there is one, and track_sso_identity keys its
\* entry by it, falling back to the session id only when the context carries
\* no identity claim.
C16_ResolvePrefersSubject ==
    /\ \A token_obj \in AccessTokenObjects, session_id \in McpSessions :
         LET id == get_user_id(token_obj, session_id)
         IN  /\ Truthy(token_obj.sub) => id = token_obj.sub
             /\ (~Truthy(token_obj.sub) /\ session_id # None) => id = session_id
    /\ surface.tool = "debug_identity" =>
         surface.user_id = IF Truthy(surface.sub) THEN surface.sub
                           ELSE IF surface.session_id # None
                           THEN surface.session_id ELSE "unknown"
    /\ \A ctx \in ServerContexts :
         LET claims == extract_jwt_claims(ctx)
             keys == {e.key : e \in track_sso_identity({}, ctx)}
         IN  /\ Truthy(claims.sub) =>
                  /\ get_sso_user_id_from_context(ctx) = claims.sub
                  /\ keys = {claims.sub}
             /\ (~Truthy(claims.sub) /\ ~Truthy(claims.user_id)
                   /\ ~Truthy(claims.uid)) =>
                  /\ get_sso_user_id_from_context(ctx) = None
                  /\ keys = {ctx.session_id}

\* debug_identity answered a caller that has both a subject and a session id
C16_Witness ==
    /\ surface.tool = "debug_identity"
    /\ Truthy(surface.sub)
    /\ surface.session_id # None
    /\ surface.user_id = surface.sub

\* C17: every pending state is eventually deleted, once: a state in the
\* registry is eventually out of it (consumed by a callback or, if none
\* arrives, removed after its TTL), and a state that left the registry never
\* comes back.
C17_EventuallyDeleted ==
    /\ \A s \in 1..MaxStates :
         DictHas(pending_auth, s) ~> ~DictHas(pending_auth, s)
    /\ [][\A s \in 1..issued :
            ~DictHas(pending_auth, s) => ~DictHas(pending_auth', s)]_vars

\* the broker state of an identity: AUTHENTICATED is a live credential
Authenticated(u) == Live(u)

\* this step completes an exchange for u, of a state issued to u, and stores
\* its credential
CompletesFor(u) ==
    \E c \in Calls, resp \in Responses :
        /\ c.sso_user_id = u
        /\ issued_to[c.state] = u
        /\ exchange_code_store(blackboard_tokens, u, resp, now).result = "ok"
        /\ oauth_callback_resume(c, resp)

\* at the end of this step the credential u held has reached its expires_at
ExpiresFor(u) ==
    /\ DictHas(blackboard_tokens, u)
    /\ now' >= DictGet(blackboard_tokens, u).expires_at

\* this step is blackboard_logout called by u
LogoutBy(u) ==
    \E ctx \in Identified : IdOf(ctx) = u /\ blackboard_logout(ctx)

\* C18 (as amended): an identity becomes AUTHENTICATED only by a successful
\* exchange_code of a state that blackboard_login issued to that identity
\* while it was not authenticated, and it leaves AUTHENTICATED only through
\* expiry of its credential, through blackboard_logout called by that
\* identity, or through a later successful exchange_code for that identity
\* that replaces the credential by one that is not live.
C18_BrokerStateMachine ==
    [][ /\ \A u \in Subs :
             /\ (~Authenticated(u) /\ Authenticated(u)') => CompletesFor(u)
             /\ (Authenticated(u) /\ ~Authenticated(u)') =>
                    ExpiresFor(u) \/ LogoutBy(u) \/ CompletesFor(u)
        /\ issued' # issued => ~Authenticated(issued_to'[issued'])
      ]_vars

\* C18 as stated: the same, with expiry as the only way out of AUTHENTICATED
C18_Original ==
    [][ /\ \A u \in Subs :
             /\ (~Authenticated(u) /\ Authenticated(u)') => CompletesFor(u)
             /\ (Authenticated(u) /\ ~Authenticated(u)') => ExpiresFor(u)
        /\ issued' # issued => ~Authenticated(issued_to'[issued'])
      ]_vars

\* an identity is AUTHENTICATED by the completed exchange of a state issued
\* to it, and no other exchange of it is under way
C18_Witness ==
    \E u \in Subs :
        /\ Authenticated(u)
        /\ \E s \in 1..issued :
               issued_to[s] = u /\ accepted[s] = 1 /\ s \notin InFlightStates
        /\ \A c \in Calls : c.sso_user_id # u

\* C19: concurrent flows of one identity are independent: a callback with one
\* state, whatever its outcome, leaves every other pending state in the
\* registry as it was and as consumable as before; blackboard_login leaves
\* every pending state in place; and a blackboard_login of the identity
\* arriving while its exchange awaits the upstream changes nothing in what
\* that exchange then stores.
C19_FlowsIndependent ==
    /\ \A s \in CallbackStates, code \in Codes, error \in Errors :
         LET r == oauth_callback_run(blackboard_tokens, pending_auth, now,
                                     code, s, error)
         IN  /\ DictDel(pending_auth, s) \subseteq r.pending_auth
             /\ \A e \in DictDel(pending_auth, s) :
                  LET before == exchange_code_validate(pending_auth, e.key, now)
                      after == exchange_code_validate(r.pending_auth, e.key, now)
                  IN  /\ after.result = before.result
                      /\ after.sso_user_id = before.sso_user_id
    /\ \A ctx \in Contexts :
         pending_auth \subseteq
             blackboard_login_run(blackboard_tokens, pending_auth,
                                  sso_identities, issued, now, ctx).pending_auth
    /\ \A c \in Calls, resp \in Responses, ctx \in Identified :
         IdOf(ctx) = c.sso_user_id =>
             LET l == blackboard_login_run(blackboard_tokens, pending_auth,
                                           sso_identities, issued, now, ctx)
                 raced == exchange_code_store(l.blackboard_tokens,
                                              c.sso_user_id, resp, now)
                 alone == exchange_code_store(blackboard_tokens,
                                              c.sso_user_id, resp, now)
             IN  /\ raced.result = alone.result
                 /\ alone.result = "ok" =>
                      EntryOf(raced.tokens, c.sso_user_id)
                          = EntryOf(alone.tokens, c.sso_user_id)

\* one state of an identity is being exchanged while another state of the
\* same identity is pending and within its TTL
C19_Witness ==
    \E c \in Calls, e \in pending_auth :
        /\ e.sso_user_id = c.sso_user_id
        /\ now - e.created_at <= TTL_SECONDS

\* C20: lazy expiry on read: get_blackboard_token on an entry with
\* now >= expires_at removes that entry and returns None; on a live entry it
\* returns the access token and on an absent identity None, both without
\* changing the table; and it never changes the entry of another identity.
C20_LazyExpiryOnRead ==
    \A u \in Subs :
        LET r == get_blackboard_token(blackboard_tokens, u, now)
        IN  /\ \A e \in EntryOf(blackboard_tokens, u) :
                 /\ now >= e.expires_at =>
                      /\ r.ret = None
                      /\ r.tokens = blackboard_tokens \ {e}
                 /\ now < e.expires_at =>
                      /\ r.ret = e.access_token
                      /\ r.tokens = blackboard_tokens
            /\ EntryOf(blackboard_tokens, u) = {} =>
                 r.ret = None /\ r.tokens = blackboard_tokens
            /\ \A w \in Subs \ {u} :
                 EntryOf(r.tokens, w) = EntryOf(blackboard_tokens, w)

\* an entry read at the very instant of its expires_at, next to a live entry
\* of the other identity
C20_Witness ==
    \E e \in blackboard_tokens, f \in blackboard_tokens :
        /\ e.expires_at = now
        /\ f.key # e.key
        /\ now < f.expires_at

\* C21: the credential a successful exchange stores has expires_at = the time
\* of storing + expires_in (3600 when the answer gives none); a credential
\* stored with a positive lifetime is returned by get_blackboard_token up to
\* the last second before expires_at and not at expires_at or later, so with
\* the default it is retrievable for 3600 seconds and not afterwards.
C21_ExpiresAtIsNowPlusExpiresIn ==
    \A c \in Calls, resp \in Responses :
        LET r == exchange_code_store(blackboard_tokens, c.sso_user_id, resp, now)
            life == ExpiresInOf(resp)
        IN  r.result = "ok" =>
              /\ \A e \in EntryOf(r.tokens, c.sso_user_id) :
                     e.expires_at = now + life
              /\ ~resp.has_expires_in => life = DEFAULT_EXPIRES_IN
              /\ life > 0 =>
                   /\ \A t \in {now, now + life - 1} :
                          get_blackboard_token(r.tokens, c.sso_user_id, t).ret
                              = resp.access_token
                   /\ \A t \in {now + life, now + life + 1} :
                          get_blackboard_token(r.tokens, c.sso_user_id, t).ret
                              = None

\* a credential stored at this instant with the default lifetime
C21_Witness ==
    \E e \in blackboard_tokens :
        /\ e.expires_at = now + DEFAULT_EXPIRES_IN
        /\ e.access_token = "tokB"

\* the caller's context carries no identity claim
NoSubject(ctx) ==
    LET claims == extract_jwt_claims(ctx)
    IN  ~Truthy(claims.sub) /\ ~Truthy(claims.user_id) /\ ~Truthy(claims.uid)

\* C22: the credential table and the pending registry are keyed only by
\* identities taken from claims, never by a session id: every key of the
\* credential table and every identity of the registry is a claim subject;
\* and for a caller without an identity claim blackboard_login,
\* blackboard_status, blackboard_logout and get_blackboard_courses answer
\* "unable to identify", create no pending state, leave the credential table
\* as it is and answer the same whatever that table holds.
C22_NoSessionKeyedCredential ==
    /\ \A e \in blackboard_tokens : e.key \in Subs
    /\ \A e \in pending_auth : e.sso_user_id \in Subs
    /\ \A ctx \in Contexts :
         NoSubject(ctx) =>
             LET li == blackboard_login_run(blackboard_tokens, pending_auth,
                                            sso_identities, issued, now, ctx)
                 st == blackboard_status_run(blackboard_tokens, sso_identities,
                                             now, ctx)
                 lo == blackboard_logout_run(blackboard_tokens, sso_identities,
                                             ctx)
                 co == get_blackboard_courses_run(blackboard_tokens,
                                                  sso_identities, now, ctx)
             IN  /\ li.result = "unable to identify"
                 /\ li.pending_auth = pending_auth
                 /\ li.blackboard_tokens = blackboard_tokens
                 /\ st.result = "unable to identify"
                 /\ st.blackboard_tokens = blackboard_tokens
                 /\ lo.result = "unable to identify"
                 /\ lo.blackboard_tokens = blackboard_tokens
                 /\ co.result = "unable to identify" /\ ~co.upstream
                 /\ co.blackboard_tokens = blackboard_tokens
                 /\ st.result = blackboard_status_run({}, sso_identities, now,
                                                      ctx).result
                 /\ co.result = get_blackboard_courses_run({}, sso_identities,
                                                           now, ctx).result

\* a caller without an identity claim has called a tool (it is tracked under
\* its session id) while credentials are stored and states are pending
C22_Witness ==
    /\ \E e \in sso_identities : e.key \in Sessions
    /\ blackboard_tokens # {}
    /\ pending_auth # {}
    /\ \E ctx \in Contexts : NoSubject(ctx)

\* C25: for every identified caller, is_blackboard_authenticated is true
\* exactly when make_blackboard_api_call obtains a token instead of raising
\* "Not authenticated", whatever token value the upstream returned, the
\* empty string included.
C25_StatusAgreesWithFetch ==
    \A ctx \in Identified :
        is_blackboard_authenticated(blackboard_tokens, IdOf(ctx), now).ret
        <=> (make_blackboard_api_call(blackboard_tokens, IdOf(ctx), now).result
                 # "ValueError: Not authenticated to Blackboard")

\* a pending entry the state check of exchange_code lets through at t
Fresh(e, t) == t - e.created_at <= TTL_SECONDS

\* C26: blackboard_logout removes the calling identity's credential and
\* nothing else: every other identity's credential and every pending state
\* (the caller's included) are as before, so that afterwards a state still
\* within its TTL gets past the state check, and an exchange (of such a
\* state, or in flight already) that the upstream answers with a token
\* stores that token for the identity the state was issued to.
C26_RevokeRemovesOnlyCallersCredential ==
    \A ctx \in Contexts :
        LET r == blackboard_logout_effect(blackboard_tokens, pending_auth,
                                          sso_identities, ctx)
        IN  /\ r.pending_auth = pending_auth
            /\ \A u \in Subs \ {IdOf(ctx)} :
                   EntryOf(r.blackboard_tokens, u) = EntryOf(blackboard_tokens, u)
            /\ Truthy(IdOf(ctx)) => EntryOf(r.blackboard_tokens, IdOf(ctx)) = {}
            /\ \A e \in pending_auth, resp \in Responses :
                 (Fresh(e, now) /\ UpstreamSuccess(resp)) =>
                   LET v == oauth_callback_run(r.blackboard_tokens,
                                r.pending_auth, now, "abc", e.key, None)
                       st == exchange_code_store(v.blackboard_tokens,
                                                 e.sso_user_id, resp, now)
                   IN  /\ v.result = "await" /\ v.sso_user_id = e.sso_user_id
                       /\ st.result = "ok"
                       /\ \E n \in EntryOf(st.tokens, e.sso_user_id) :
                              n.access_token = resp.access_token
            /\ \A c \in Calls, resp \in Responses :
                 UpstreamSuccess(resp) =>
                   LET st == exchange_code_store(r.blackboard_tokens,
                                                 c.sso_user_id, resp, now)
                   IN  /\ st.result = "ok"
                       /\ \E n \in EntryOf(st.tokens, c.sso_user_id) :
                              n.access_token = resp.access_token

\* an identity that had a credential stored holds none now, while the other
\* state issued to it is still pending within its TTL
C26_Witness ==
    \E e \in pending_auth :
        /\ Fresh(e, now)
        /\ e.sso_user_id \in ever_stored
        /\ EntryOf(blackboard_tokens, e.sso_user_id) = {}
        /\ \A s \in 1..issued : issued_to[s] = e.sso_user_id
        /\ issued = MaxStates
        /\ now = 0

\* C27: a callback with an error parameter, or without a code or a state, is
\* answered with 400, reaches no upstream and changes neither the registry
\* nor the credential table; a pending state it names is still pending and,
\* within its TTL, gets past the state check of a later callback.
C27_RejectedCallbackConsumesNothing ==
    \A code \in Codes, s \in CallbackStates, error \in Errors :
        (Truthy(error) \/ ~Truthy(code) \/ s = NoState) =>
            LET r == oauth_callback_run(blackboard_tokens, pending_auth, now,
                                        code, s, error)
            IN  /\ r.result = IF Truthy(error) THEN "400 Authorization Failed"
                              ELSE "400 Missing code or state"
                /\ ~r.upstream
                /\ r.pending_auth = pending_auth
                /\ r.blackboard_tokens = blackboard_tokens
                /\ \A e \in pending_auth :
                     (e.key = s /\ Fresh(e, now)) =>
                         LET later == oauth_callback_run(r.blackboard_tokens,
                                          r.pending_auth, now, "abc", s, None)
                         IN  /\ later.result = "await"
                             /\ later.upstream
                             /\ ~DictHas(later.pending_auth, s)

\* a state pending at the last instant of its TTL, which a callback with an
\* error parameter can name, while a credential is stored
C27_Witness ==
    /\ \E e \in pending_auth : now - e.created_at = TTL_SECONDS
    /\ blackboard_tokens # {}

\* two callers share a subject claim or a session id
SharesIdentity(sub1, session1, sub2, session2) ==
    \/ Truthy(sub1) /\ sub1 = sub2
    \/ session1 # None /\ session1 = session2

\* C23: two callers that share neither a subject claim nor a session id never
\* resolve to the same identity: the identity debug_identity showed its
\* caller is the identity of no caller that shares neither with it, callers
\* with no claim and no session id included.
C23_DistinctCallersDistinctIdentities ==
    surface.tool = "debug_identity" =>
        \A token_obj \in AccessTokenObjects, session_id \in McpSessions :
            ~SharesIdentity(surface.sub, surface.session_id,
                            token_obj.sub, session_id)
                => get_user_id(token_obj, session_id) # surface.user_id

\* C24: MCPSessionMiddleware gives every /mcp request a consistent session
\* id: after dispatch request.state holds a non-empty session id, a session
\* id supplied in the Mcp-Session-Id header is the one held, and for an
\* initialize request the Mcp-Session-Id response header equals the id held;
\* a request on another path gets neither.
C24_ConsistentSessionId ==
    /\ dispatched.path \in McpPaths =>
         /\ mcp_session_id \notin {Unset, None, ""}
         /\ Truthy(dispatched.header) => mcp_session_id = dispatched.header
         /\ (dispatched.method = "POST" /\ dispatched.body = "initialize") =>
                response_header = mcp_session_id
    /\ dispatched.path \in OtherPaths =>
         mcp_session_id = Unset /\ response_header = None

\* C28: verify_token returns an AccessToken exactly when the token is not
\* empty and /users/me answers 200 with a non-empty user id; the AccessToken
\* carries that id as 'sub' and the token as given; in every other case
\* (empty token, 401, 403, another status, no id, transport error) it
\* returns None, and it raises in none.
C28_VerifyTokenTotal ==
    /\ \A token \in BearerTokens, resp \in UsersMeResponses :
         LET r == verify_token(token, resp).ret
             good == /\ token # EmptyStr
                     /\ resp.kind = "http"
                     /\ resp.status = HTTP_OK
                     /\ Truthy(resp.id)
         IN  /\ r.present <=> good
             /\ good => r.sub = resp.id /\ r.token = token
             /\ ~good => r = NoAccessToken
    /\ verified.present =>
         /\ Truthy(verified.sub)
         /\ verified.token # EmptyStr

\* verify_token has just accepted the token of the request for user u2
C28_Witness ==
    /\ verified.present
    /\ verified.sub = "u2"
    /\ verified.token = secret
    /\ \E e \in log : e.event = "TOKEN VERIFIED"
====
